---- MODULE Spec2Model ----
(***************************************************************************)
(* Model of zeek::probabilistic::detail::TopkVal                           *)
(* (src/src/probabilistic/Topk.cc): the Space-Saving top-k sketch, its     *)
(* bucket chain, Encountered, IncrementCounter and Merge.                  *)
(*                                                                         *)
(* Heap objects.  An Element is named by the value it was created for (the *)
(* code creates one only after a failed elementDict lookup of that value's *)
(* key).  A Bucket is named by an id; Bucket::bucketPos and Element::parent*)
(* are that id.  When an operation returns, ids are renamed to chain       *)
(* positions (Canon) and a parent that points to a deleted bucket becomes  *)
(* Dangling: two heaps that differ only in addresses are one state.        *)
(*                                                                         *)
(* Counts.  Bucket::count and Element::epsilon are uint64_t.  TLC has no   *)
(* 2^32, so a count is written in base 2^32 as [hi, lo], the number        *)
(* hi * 2^32 + lo; within the bounds lo never carries and hi never wraps.  *)
(*                                                                         *)
(* Faults.  A failed assert() aborts in a build with assertions and is     *)
(* skipped in an NDEBUG build; undefined behaviour ends in one of          *)
(* UBOutcomes.  After a fault the process is gone: no action is enabled.   *)
(***************************************************************************)
EXTENDS Integers, Sequences, FiniteSets, TLC

\* ------------------------------------------------------------- bounds
\* Largest capacity (TopkVal::size) a sketch is constructed with.
MaxCap == 2
\* Largest low word of a bucket count or epsilon an operation may produce.
MaxCount == 2
\* Largest high word (multiple of 2^32) of a bucket count or epsilon.
MaxHi == 1
\* Largest number of Encountered calls per value the history counts.
MaxHist == 4
\* Longest stream of Encountered calls that builds the argument of a Merge.
MaxStream == 2
\* Largest bucket count a history of Encountered calls alone may produce.
MaxSeen == 4
\* Most entries in one serialized bucket record.
MaxEntries == 2

\* ------------------------------------------------------------- values
Values == {"A", "B", "C", "X"}
NoType == "none"
TypeOf(v) == IF v = "X" THEN "T2" ELSE "T1"
same_type(t1, t2) == t1 = t2

Dangling == 0
UBOutcomes == {"crash", "corrupt"}

VARIABLES sk, fault, build, last, trueCount
vars == <<sk, fault, build, last, trueCount>>

\* ------------------------------------------------------------- uint64_t
Wide(h, l) == [hi |-> h, lo |-> l]
Zero == Wide(0, 0)
One == Wide(0, 1)
Plus(a, b) == Wide(a.hi + b.hi, a.lo + b.lo)
Less(a, b) == a.hi < b.hi \/ (a.hi = b.hi /\ a.lo < b.lo)
LessEq(a, b) == a = b \/ Less(a, b)
\* uint64_t passed for an unsigned int parameter: the value modulo 2^32.
UnsignedInt(a) == Wide(0, a.lo)

\* ------------------------------------------------------------- sequences
InsertAt(seq, i, x) == SubSeq(seq, 1, i - 1) \o <<x>> \o SubSeq(seq, i, Len(seq))
RemoveAll(seq, x) == SelectSeq(seq, LAMBDA y : y # x)
Range(seq) == {seq[i] : i \in DOMAIN seq}

\* ------------------------------------------------------------- objects
NoElements == [v \in {} |-> [epsilon |-> Zero, parent |-> Dangling, inherited |-> FALSE]]

\* TopkVal::TopkVal(uint64_t arg_size)
TopkVal(arg_size) ==
    [size |-> arg_size, numElements |-> 0, pruned |-> FALSE,
     type |-> NoType, hash |-> NoType,
     buckets |-> <<>>, elems |-> NoElements, elementDict |-> {}]

\* The running operation: the sketch, the fault it ended in, and whether a
\* failed assert() was skipped (which only an NDEBUG build does).
Running(s) == [sk |-> s, fault |-> "none", skipped |-> FALSE]
Faulted(st, f) == [st EXCEPT !.fault = f]
\* assert(cond): abort with assertions compiled in, else carry on.
Aborts(cond, env) == ~cond /\ ~env.ndebug
Passed(st, cond) == [st EXCEPT !.skipped = @ \/ ~cond]

BucketIndex(s, id) ==
    IF \E i \in DOMAIN s.buckets : s.buckets[i].id = id
    THEN CHOOSE i \in DOMAIN s.buckets : s.buckets[i].id = id
    ELSE 0

\* new Bucket(): an address no live bucket of the chain has.
NewBucketId(s) ==
    CHOOSE n \in 1..(Len(s.buckets) + 1) :
        \A i \in DOMAIN s.buckets : s.buckets[i].id # n

PutElement(s, v, e) ==
    [x \in (DOMAIN s.elems) \cup {v} |-> IF x = v THEN e ELSE s.elems[x]]
DeleteElement(s, v) == [x \in (DOMAIN s.elems) \ {v} |-> s.elems[x]]

\* Addresses renamed to chain positions when the operation returns.
Canon(s) ==
    [s EXCEPT
        !.buckets = [i \in DOMAIN s.buckets |-> [s.buckets[i] EXCEPT !.id = i]],
        !.elems = [v \in DOMAIN s.elems |->
                      [s.elems[v] EXCEPT !.parent = BucketIndex(s, s.elems[v].parent)]]]

\* ------------------------------------------------------------- Typify
Typify(st, t, env) ==
    LET s == st.sk
        ok == s.hash = NoType /\ s.type = NoType
    IN  IF Aborts(ok, env) THEN Faulted(st, "abort")
        ELSE [Passed(st, ok) EXCEPT !.sk = [s EXCEPT !.type = t, !.hash = t]]

\* ------------------------------------------------------------- GetHash
\* hash->MakeHashKey(*v, true) needs the CompositeHash Typify builds; the key
\* of a value is the value.  FALSE: hash is still nullptr.
GetHash(s) == s.hash # NoType

\* ------------------------------------------------------------- IncrementCounter
\* The bucket the scan of lines 326-329 stops at: the first one after
\* position p whose count is not below target, or end().
ScanFrom(s, p, target) ==
    CHOOSE i \in (p + 1)..(Len(s.buckets) + 1) :
        /\ (i = Len(s.buckets) + 1 \/ ~Less(s.buckets[i].count, target))
        /\ \A j \in (p + 1)..(i - 1) : Less(s.buckets[j].count, target)

\* count is the caller's argument; the parameter is an unsigned int.
IncrementCounter(st, e, count, env) ==
    LET s == st.sk
        delta == UnsignedInt(count)
        p == BucketIndex(s, s.elems[e].parent)
    IN  IF p = 0 THEN Faulted(st, env.ub)
        ELSE
        LET currBucket == s.buckets[p]
            currcount == currBucket.count
            target == Plus(currcount, delta)
            bucketIter == ScanFrom(s, p, target)
            found == bucketIter <= Len(s.buckets)
                        /\ s.buckets[bucketIter].count = target
            nextId == IF found THEN s.buckets[bucketIter].id ELSE NewBucketId(s)
            b == [id |-> nextId, count |-> target, elements |-> <<>>]
            withNext == IF found THEN s.buckets ELSE InsertAt(s.buckets, bucketIter, b)
            moved == [i \in DOMAIN withNext |->
                        IF withNext[i].id = currBucket.id /\ withNext[i].id = nextId
                        THEN [withNext[i] EXCEPT
                                !.elements = Append(RemoveAll(@, e), e)]
                        ELSE IF withNext[i].id = currBucket.id
                        THEN [withNext[i] EXCEPT !.elements = RemoveAll(@, e)]
                        ELSE IF withNext[i].id = nextId
                        THEN [withNext[i] EXCEPT !.elements = Append(@, e)]
                        ELSE withNext[i]]
            emptied == \E i \in DOMAIN moved :
                          moved[i].id = currBucket.id /\ moved[i].elements = <<>>
            kept == IF emptied
                    THEN SelectSeq(moved, LAMBDA x : x.id # currBucket.id)
                    ELSE moved
        IN  [st EXCEPT !.sk = [s EXCEPT
                !.buckets = kept,
                !.elems = [s.elems EXCEPT ![e].parent = nextId]]]

\* ------------------------------------------------------------- Encountered
\* Mutant: the entry of the evicted element stays in the dictionary.
RemoveEntryMissed(dict, key) == dict
\* elementDict->RemoveEntry(key)
RemoveEntry(dict, key) == dict \ {key}
\* Mutant: the admitted element does not inherit the displaced count.
InheritedEpsilonNone(b) == Zero
\* Mutant: the displaced count is read after the increment.
InheritedEpsilonLate(b) == Plus(b.count, One)
\* Line 302: e->epsilon = b->count, read before the increment.
InheritedEpsilon(b) == b.count

\* Mutant: an insertion is not counted.
InsertedUncounted(n) == n
\* Line 282: numElements++
Inserted(n) == n + 1

Encountered(s0, encountered, env) ==
    LET t == TypeOf(encountered) IN
    IF s0.numElements # 0 /\ ~same_type(s0.type, t) THEN Running(s0)
    ELSE
    LET st1 == IF s0.numElements = 0 THEN Typify(Running(s0), t, env)
               ELSE Running(s0)
        s == st1.sk
    IN
    IF st1.fault # "none" THEN st1
    ELSE IF ~GetHash(s) THEN Faulted(st1, env.ub)
    ELSE IF encountered \in s.elementDict
    THEN IncrementCounter(st1, encountered, One, env)
    ELSE IF s.numElements < s.size
    THEN
        LET fresh == Len(s.buckets) = 0 \/ Less(One, s.buckets[1].count)
            id == IF fresh THEN NewBucketId(s) ELSE s.buckets[1].id
            chain == IF fresh
                     THEN <<[id |-> id, count |-> One, elements |-> <<encountered>>]>>
                            \o s.buckets
                     ELSE [s.buckets EXCEPT ![1].elements = Append(@, encountered)]
            e == [epsilon |-> Zero, parent |-> id, inherited |-> FALSE]
            \* assert(b->count == 1) on the append branch
            ok == fresh \/ s.buckets[1].count = One
        IN  IF Aborts(ok, env) THEN Faulted(st1, "abort")
            ELSE [Passed(st1, ok) EXCEPT !.sk = [s EXCEPT
                    !.buckets = chain,
                    !.elems = PutElement(s, encountered, e),
                    !.elementDict = @ \cup {encountered},
                    !.numElements = Inserted(@)]]
    ELSE
        \* replace element with min-value
        IF Len(s.buckets) = 0 THEN Faulted(st1, env.ub)
        ELSE
        LET b == s.buckets[1]
            ok1 == Len(b.elements) > 0
        IN  IF Aborts(ok1, env) THEN Faulted(st1, "abort")
            ELSE IF ~ok1 THEN Faulted(Passed(st1, ok1), env.ub)
            ELSE
            LET victim == Head(b.elements)
                ok2 == victim \in s.elementDict
                e == [epsilon |-> InheritedEpsilon(b), parent |-> b.id, inherited |-> TRUE]
                s2 == [s EXCEPT
                        !.buckets[1].elements = Append(Tail(@), encountered),
                        !.elementDict = RemoveEntry(@, victim) \cup {encountered}]
                s3 == [s2 EXCEPT
                        !.elems = PutElement([s2 EXCEPT !.elems = DeleteElement(s2, victim)],
                                             encountered, e)]
            IN  IF Aborts(ok2, env) THEN Faulted(st1, "abort")
                ELSE IncrementCounter([Passed(st1, ok2) EXCEPT !.sk = s3],
                                      encountered, One, env)

\* ------------------------------------------------------------- Merge
\* The (value, epsilon, bucket count) triples the two nested loops of lines
\* 83-126 visit, in visiting order.
RECURSIVE Visit(_, _)
Visit(o, i) ==
    IF i > Len(o.buckets) THEN <<>>
    ELSE [j \in DOMAIN o.buckets[i].elements |->
            [value |-> o.buckets[i].elements[j],
             epsilon |-> o.elems[o.buckets[i].elements[j]].epsilon,
             currcount |-> o.buckets[i].count]]
         \o Visit(o, i + 1)

\* One round of the inner loop, lines 90-122.
MergeElement(st, e, env) ==
    LET s == st.sk
        known == e.value \in s.elementDict
        ok == Len(s.buckets) = 0 \/ Less(Zero, s.buckets[1].count)
        newbucket == [id |-> NewBucketId(s), count |-> Zero, elements |-> <<e.value>>]
        s1 == IF known THEN s
              ELSE [s EXCEPT
                      !.buckets = <<newbucket>> \o @,
                      !.elems = PutElement(s, e.value,
                                  [epsilon |-> Zero, parent |-> newbucket.id,
                                   inherited |-> FALSE]),
                      !.elementDict = @ \cup {e.value},
                      !.numElements = @ + 1]
        s2 == [s1 EXCEPT
                 !.elems[e.value].epsilon = Plus(@, e.epsilon),
                 !.elems[e.value].inherited = @ \/ e.epsilon # Zero]
    IN  IF ~GetHash(s) THEN Faulted(st, env.ub)
        ELSE IF ~known /\ Aborts(ok, env) THEN Faulted(st, "abort")
        ELSE IncrementCounter(
                [(IF known THEN st ELSE Passed(st, ok)) EXCEPT !.sk = s2],
                e.value, e.currcount, env)

RECURSIVE MergeLoop(_, _, _, _)
MergeLoop(st, todo, i, env) ==
    IF i > Len(todo) \/ st.fault # "none" THEN st
    ELSE MergeLoop(MergeElement(st, todo[i], env), todo, i + 1, env)

\* Mutant: the prune loop stops one element early.
PruneMoreLate(s) == s.numElements > s.size + 1
\* Line 136: the prune loop goes on.
PruneMore(s) == s.numElements > s.size
\* Mutant: pruning does not set the flag.
MarkPrunedNot(s) == s
\* Line 137.
MarkPruned(s) == [s EXCEPT !.pruned = TRUE]
\* Mutant: the list loses its last element instead of its first.
PopBack(elements) == SubSeq(elements, 1, Len(elements) - 1)
\* Line 148: b->elements.pop_front()
PopFront(elements) == Tail(elements)

\* The prune loop, lines 136-156.
RECURSIVE Prune(_, _)
Prune(st, env) ==
    LET s == st.sk IN
    IF st.fault # "none" \/ ~PruneMore(s) THEN st
    ELSE
    LET ok1 == Len(s.buckets) > 0
        ok2 == ok1 /\ Len(s.buckets[1].elements) > 0
        st1 == [st EXCEPT !.sk = MarkPruned(s)]
    IN  IF Aborts(ok2, env) THEN Faulted(st1, "abort")
        ELSE IF ~ok2 THEN Faulted(Passed(st1, ok2), env.ub)
        ELSE
        LET b == s.buckets[1]
            e == Head(b.elements)
            rest == PopFront(b.elements)
        IN  Prune([st1 EXCEPT !.sk = [st1.sk EXCEPT
                    !.elementDict = RemoveEntry(@, e),
                    !.elems = DeleteElement(s, e),
                    !.buckets = IF rest = <<>> THEN Tail(@)
                                ELSE [@ EXCEPT ![1].elements = rest],
                    !.numElements = @ - 1]], env)

\* Lines 64-126: everything before the prune decision.
MergeAdd(s0, value, env) ==
    IF value.type = NoType
    THEN \* assert(value->numElements == 0); return
         IF Aborts(value.numElements = 0, env) THEN Faulted(Running(s0), "abort")
         ELSE Passed(Running(s0), value.numElements = 0)
    ELSE IF s0.type # NoType /\ ~same_type(s0.type, value.type) THEN Running(s0)
    ELSE
    LET st0 == IF s0.type = NoType
               THEN IF Aborts(s0.numElements = 0, env)
                    THEN Faulted(Running(s0), "abort")
                    ELSE Typify(Passed(Running(s0), s0.numElements = 0),
                                value.type, env)
               ELSE Running(s0)
    IN  MergeLoop(st0, Visit(value, 1), 1, env)

\* TRUE when Merge returns at line 68 or 79, before the loops.
MergeReturnsEarly(s0, value) ==
    \/ value.type = NoType
    \/ s0.type # NoType /\ ~same_type(s0.type, value.type)

\* Lines 128-156, from the state the loops leave.
MergeFinish(st, doPrune, env) ==
    IF st.fault # "none" THEN st
    ELSE IF Aborts(st.sk.size > 0, env) THEN Faulted(st, "abort")
    ELSE IF ~doPrune THEN Passed(st, st.sk.size > 0)
    ELSE Prune(Passed(st, st.sk.size > 0), env)

Merge(s0, value, doPrune, env) ==
    IF MergeReturnsEarly(s0, value) THEN MergeAdd(s0, value, env)
    ELSE MergeFinish(MergeAdd(s0, value, env), doPrune, env)

\* ------------------------------------------------------------- DoUnserialize
\* An item of the broker list: a count, a boolean, nil, a serialized type or a
\* serialized value.
Count(c) == [k |-> "count", n |-> c, s |-> ""]
Bool(b) == [k |-> "bool", n |-> Zero, s |-> IF b THEN "T" ELSE "F"]
Nil == [k |-> "nil", n |-> Zero, s |-> ""]
Type(t) == [k |-> "type", n |-> Zero, s |-> t]
Value(x) == [k |-> "value", n |-> Zero, s |-> x]

\* TopkVal::TopkVal(): pruned is not initialised.
DefaultTopkVal(garbage) == [TopkVal(0) EXCEPT !.pruned = garbage]

Parsing(s) == [sk |-> s, fault |-> "none", skipped |-> FALSE, result |-> TRUE]
\* Mutant: a failing call puts back the sketch it was given.
RejectedRestored(st) == [st EXCEPT !.result = FALSE, !.sk = DefaultTopkVal(FALSE)]
\* return false: what was assigned so far stays in the object.
Rejected(st) == [st EXCEPT !.result = FALSE]

\* Lines 453-479: the entries of one bucket record.  i counts the elements
\* read so far, j those of this bucket.
RECURSIVE UnserializeElements(_, _, _, _, _, _, _, _)
UnserializeElements(st, v, index, i, j, elements_count, b, env) ==
    IF j >= elements_count THEN [st |-> st, index |-> index, i |-> i]
    ELSE IF index > Len(v) \/ v[index].k # "count"
    THEN [st |-> Rejected(st), index |-> index, i |-> i]
    ELSE IF index + 1 > Len(v)
    THEN [st |-> Rejected(st), index |-> index + 1, i |-> i]
    ELSE IF st.sk.type = NoType
    THEN [st |-> Faulted(Rejected(st), env.ub), index |-> index + 1, i |-> i]
    ELSE IF v[index + 1].k # "value" \/ TypeOf(v[index + 1].s) # st.sk.type
    THEN [st |-> Rejected(st), index |-> index + 2, i |-> i]
    ELSE
    LET s == st.sk
        val == v[index + 1].s
        e == [epsilon |-> v[index].n, parent |-> b, inherited |-> v[index].n # Zero]
        ok == val \notin s.elementDict
        s1 == [s EXCEPT
                 !.buckets[BucketIndex(s, b)].elements = Append(@, val),
                 !.elems = PutElement(s, val, e),
                 !.elementDict = @ \cup {val}]
    IN  IF ~GetHash(s)
        THEN [st |-> Faulted(Rejected(st), env.ub), index |-> index + 2, i |-> i]
        ELSE IF Aborts(ok, env)
        THEN [st |-> Faulted(Rejected([st EXCEPT !.sk = s1]), "abort"),
              index |-> index + 2, i |-> i]
        ELSE UnserializeElements([Passed(st, ok) EXCEPT !.sk = s1], v, index + 2,
                                 i + 1, j + 1, elements_count, b, env)

\* Lines 439-480: the bucket records.
RECURSIVE UnserializeBuckets(_, _, _, _, _)
UnserializeBuckets(st, v, index, i, env) ==
    IF ~(i < st.sk.numElements) THEN [st |-> st, index |-> index, i |-> i]
    ELSE IF index > Len(v) \/ v[index].k # "count"
    THEN [st |-> Rejected(st), index |-> index, i |-> i]
    ELSE IF index + 1 > Len(v) \/ v[index + 1].k # "count"
    THEN [st |-> Rejected(st), index |-> index + 1, i |-> i]
    ELSE
    LET s == st.sk
        b == [id |-> NewBucketId(s), count |-> v[index + 1].n, elements |-> <<>>]
        s1 == [s EXCEPT !.buckets = Append(@, b)]
        \* elements_count is a uint64_t; the records here declare fewer than 2^32
        r == UnserializeElements([st EXCEPT !.sk = s1], v, index + 2, i, 0,
                                 v[index].n.lo, b.id, env)
    IN  IF ~r.st.result \/ r.st.fault # "none" THEN r
        ELSE UnserializeBuckets(r.st, v, r.index, r.i, env)

\* v is the broker list (data.IsList() holds); positions are 1-based here.
DoUnserialize(s0, v, env) ==
    IF Len(v) < 4 \/ v[1].k # "count" \/ v[2].k # "count" \/ v[3].k # "bool"
    THEN Rejected(Parsing(s0))
    ELSE
    LET s1 == [s0 EXCEPT !.size = v[1].n.lo, !.numElements = v[2].n.lo,
                         !.pruned = (v[3].s = "T")]
        st1 == Parsing(s1)
    IN  IF v[4].k # "nil" /\ v[4].k # "type" THEN Rejected(st1)
        ELSE
        LET typed == IF v[4].k = "nil" THEN st1
                     ELSE LET ty == Typify(st1, v[4].s, env)
                          IN  [ty EXCEPT !.result = TRUE]
        IN  IF typed.fault # "none" THEN Rejected(typed)
            ELSE
            LET r == UnserializeBuckets(typed, v, 5, 0, env)
            IN  IF ~r.st.result \/ r.st.fault # "none" THEN r.st
                ELSE IF r.index <= Len(v) THEN Rejected(r.st)
                ELSE r.st

\* ------------------------------------------------------------- state machine
Envs == {[ndebug |-> n, ub |-> u] :
            n \in (IF build = "ndebug" THEN {TRUE} ELSE BOOLEAN), u \in UBOutcomes}
\* A call that fails no assert() and meets no undefined behaviour ends the
\* same way in every build.
AnyBuild == [ndebug |-> TRUE, ub |-> "crash"]
Clean(st) == st.fault = "none" /\ ~st.skipped

Bounded(c, top) == c.hi <= MaxHi /\ c.lo <= top
WithinBounds(st, top) ==
    \/ st.fault # "none"
    \/ /\ \A i \in DOMAIN st.sk.buckets : Bounded(st.sk.buckets[i].count, top)
       /\ \A v \in DOMAIN st.sk.elems : Bounded(st.sk.elems[v].epsilon, top)

\* The sketch a stream of Encountered calls leaves in TopkVal(n), n > 0.
RECURSIVE Stream(_, _, _)
Stream(s, w, i) ==
    IF i > Len(w) THEN s
    ELSE Stream(Canon(Encountered(s, w[i], [ndebug |-> FALSE, ub |-> "crash"]).sk),
                w, i + 1)
\* The values the argument of a Merge is built from.
MergeValues == {"A", "B", "X"}
Streams == UNION {[1..n -> MergeValues] : n \in 0..MaxStream}
\* TopkVal(n) after 2^32 Encountered calls with value v: the first inserts v
\* at count 1, every later one increments it.
Veteran(n, v) ==
    [TopkVal(n) EXCEPT
        !.numElements = 1, !.type = TypeOf(v), !.hash = TypeOf(v),
        !.buckets = <<[id |-> 1, count |-> Wide(1, 0), elements |-> <<v>>]>>,
        !.elems = [x \in {v} |-> [epsilon |-> Zero, parent |-> 1, inherited |-> FALSE]],
        !.elementDict = {v}]
Built ==
    {Stream(TopkVal(n), w, 1) : n \in 1..MaxCap, w \in Streams}
    \cup {Stream(Veteran(1, "A"), w, 1) : w \in {<<>>, <<"B">>}}
\* What Merge reads of its argument.
Content(o) == <<o.type, o.numElements, o.buckets, o.elems>>
\* The sketches Merge is given as its argument: one for every content a
\* stream can build.
Others ==
    {o \in Built : \A o2 \in Built :
        Content(o2) = Content(o) => (o2.size >= o.size /\ (o2.size = o.size => o2 = o))}

\* Which branch of Encountered a call takes (recorded for the claims only).
EncounterKind(s, v) ==
    IF s.numElements # 0 /\ ~same_type(s.type, TypeOf(v)) THEN "mismatch"
    ELSE IF v \in s.elementDict THEN "increment"
    ELSE IF s.numElements < s.size THEN "insert"
    ELSE "replace"

MergeKind(s, o) ==
    IF o.type = NoType THEN "empty"
    ELSE IF s.type # NoType /\ ~same_type(s.type, o.type) THEN "mismatch"
    ELSE "merged"

Merged(s, o) == MergeKind(s, o) = "merged"

NoCall ==
    [op |-> "new", doPrune |-> FALSE, kind |-> "",
     known |-> FALSE, dropped |-> FALSE]

Init ==
    /\ sk \in {TopkVal(n) : n \in 0..MaxCap}
    /\ fault = "none"
    /\ build = "any"
    /\ last = NoCall
    /\ trueCount = [v \in Values |-> 0]

Returns(st, top) ==
    /\ WithinBounds(st, top)
    /\ sk' = Canon(st.sk)
    /\ fault' = st.fault
    /\ build' = IF st.skipped THEN "ndebug" ELSE build

\* topk_add: the sketch sees value v.
EncounterCall(v, top) ==
    /\ fault = "none"
    /\ LET st == Encountered(sk, v, AnyBuild)
       IN  IF Clean(st) THEN Returns(st, top)
           ELSE \E env \in Envs : Returns(Encountered(sk, v, env), top)
    /\ last' = [NoCall EXCEPT !.op = "Encounter", !.kind = EncounterKind(sk, v)]

Encounter(v) == EncounterCall(v, MaxCount) /\ UNCHANGED trueCount

\* The same call in a history of Encountered calls only, which counts how
\* often each value was seen.
Observe(v) ==
    /\ trueCount[v] < MaxHist
    /\ EncounterCall(v, MaxSeen)
    /\ trueCount' = [trueCount EXCEPT ![v] = @ + 1]

NextEnc == \E v \in Values : Observe(v)
SpecEnc == Init /\ [][NextEnc]_vars

\* topk_merge / topk_merge_prune: sketch o is merged into the sketch.
MergeInto(o, doPrune) ==
    /\ fault = "none"
    /\ LET st == Merge(sk, o, doPrune, AnyBuild)
       IN  IF Clean(st) THEN Returns(st, MaxCount)
           ELSE \E env \in Envs : Returns(Merge(sk, o, doPrune, env), MaxCount)
    /\ last' = [NoCall EXCEPT
                  !.op = "Merge", !.doPrune = doPrune, !.kind = MergeKind(sk, o),
                  !.known = (sk.elementDict \cap o.elementDict # {}),
                  !.dropped = (Merged(sk, o) /\ doPrune
                                 /\ sk.elementDict \cup o.elementDict # sk'.elementDict)]
    /\ UNCHANGED trueCount

Next ==
    \/ \E v \in Values : Encounter(v)
    \/ \E o \in Others, doPrune \in BOOLEAN : MergeInto(o, doPrune)

Spec == Init /\ [][Next]_vars

\* ------------------------------------------------------------- restoring
\* The lists DoUnserialize is handed: a header, at most two bucket records
\* and possibly one item too many.  A record states its count, its entries
\* and how many entries it declares (as many as it has, or one more).
Entries ==
    {<<>>} \cup {<<e>> : e \in {Zero, One} \X {"A", "B"}}
    \cup UNION {[1..n -> {Zero} \X {"A", "B"}] : n \in 2..MaxEntries}
Records ==
    {[count |-> c, entries |-> es, declared |-> Len(es) + d] :
        c \in {One, Wide(0, 2)}, es \in Entries, d \in {0, 1}}
Bodies ==
    {<<>>} \cup {<<r>> : r \in Records}
    \cup {<<r1, r2>> : r1 \in Records,
                       r2 \in {r \in Records : r.entries \in {<<>>, <<<<Zero, "A">>>>,
                                                              <<<<Zero, "B">>>>}}}
Headers ==
    {<<Count(Wide(0, n)), Count(Wide(0, m)), Bool(p), ty>> :
        n \in 1..MaxCap, m \in 0..(MaxCap + 1), p \in BOOLEAN,
        ty \in {Nil, Type("T1"), Count(One)}}

RECURSIVE Items(_, _)
Items(es, j) ==
    IF j > Len(es) THEN <<>>
    ELSE <<Count(es[j][1]), Value(es[j][2])>> \o Items(es, j + 1)
RECURSIVE Wire(_, _)
Wire(body, i) ==
    IF i > Len(body) THEN <<>>
    ELSE <<Count(Wide(0, body[i].declared)), Count(body[i].count)>>
         \o Items(body[i].entries, 1) \o Wire(body, i + 1)

InitRestore ==
    /\ sk \in {DefaultTopkVal(garbage) : garbage \in BOOLEAN}
    /\ fault = "none"
    /\ build = "any"
    /\ last = NoCall
    /\ trueCount = [v \in Values |-> 0]

\* OpaqueVal::Unserialize on a default-constructed TopkVal.
Unserialize(v) ==
    /\ fault = "none"
    /\ last.op = "new"
    /\ LET st == DoUnserialize(sk, v, AnyBuild)
       IN  IF Clean(st)
           THEN /\ Returns(st, MaxCount)
                /\ last' = [NoCall EXCEPT !.op = "Unserialize",
                              !.kind = IF st.result THEN "accepted" ELSE "rejected"]
           ELSE \E env \in Envs :
                /\ Returns(DoUnserialize(sk, v, env), MaxCount)
                /\ last' = [NoCall EXCEPT !.op = "Unserialize",
                              !.kind = IF DoUnserialize(sk, v, env).result
                                       THEN "accepted" ELSE "rejected"]
    /\ UNCHANGED trueCount

\* The restored sketch is used; a rejected one is discarded.
EncounterRestored(v) ==
    /\ last.op # "new"
    /\ last.kind # "rejected"
    /\ Encounter(v)

NextRestore ==
    \/ \E h \in Headers, body \in Bodies, extra \in {<<>>, <<Count(One)>>} :
          Unserialize(h \o Wire(body, 1) \o extra)
    \/ \E v \in Values : EncounterRestored(v)

SpecRestore == InitRestore /\ [][NextRestore]_vars

\* ------------------------------------------------------------- readings
Ok == fault = "none"
\* e->parent->count
ParentCount(s, v) == s.buckets[BucketIndex(s, s.elems[v].parent)].count
\* The elements of the chain, head bucket first, each bucket front to back.
RECURSIVE Flat(_, _)
Flat(s, i) ==
    IF i > Len(s.buckets) THEN <<>> ELSE s.buckets[i].elements \o Flat(s, i + 1)
Holders(s, v) == {i \in DOMAIN s.buckets : v \in Range(s.buckets[i].elements)}
\* What the loops of Merge leave before the prune decision, and what a
\* pruning Merge returns.
Added(s, o) == Canon(MergeAdd(s, o, AnyBuild).sk)
Pruned(s, o) == Canon(Merge(s, o, TRUE, AnyBuild).sk)

\* ------------------------------------------------------------- C1
\* C1: on a sketch of capacity > 0, after any sequence of Encounter and Merge
\* calls, adjacent buckets of the chain have strictly ascending counts.
C1_ChainOrdering ==
    (Ok /\ sk.size > 0) =>
        \A i \in 1..(Len(sk.buckets) - 1) :
            Less(sk.buckets[i].count, sk.buckets[i + 1].count)

\* ------------------------------------------------------------- C2
\* C2: in a history of Encounter calls only, on a sketch of capacity > 0, the
\* number of calls made with a retained value lies between parent.count -
\* epsilon and parent.count.
C2_ErrorGuarantee ==
    (Ok /\ sk.size > 0) => \A v \in sk.elementDict :
        /\ LessEq(ParentCount(sk, v), Plus(Wide(0, trueCount[v]), sk.elems[v].epsilon))
        /\ LessEq(Wide(0, trueCount[v]), ParentCount(sk, v))

\* A value that was seen, evicted and admitted again.
C2_Witness ==
    /\ Ok /\ sk.size > 0
    /\ \E v \in sk.elementDict :
        /\ sk.elems[v].epsilon # Zero
        /\ Less(ParentCount(sk, v), Plus(Wide(0, trueCount[v]), sk.elems[v].epsilon))

\* ------------------------------------------------------------- C3
\* C3 as claimed: after any public operation returns, num_elements is at most
\* the capacity (checked on runs in which no assert() has failed).
C3_AsClaimed ==
    (Ok /\ build = "any") => (0 <= sk.numElements /\ sk.numElements <= sk.size)

\* C3 amended: for capacity > 0, an Encounter on a sketch with num_elements
\* within the capacity returns with num_elements within the capacity, and a
\* Merge with do_prune = true that reaches its prune loop returns with
\* num_elements within the capacity.
C3_CapacityBound ==
    [][(fault' = "none" /\ sk.size > 0) =>
         /\ (last'.op = "Encounter" /\ sk.numElements <= sk.size)
                => (0 <= sk'.numElements /\ sk'.numElements <= sk'.size)
         /\ (last'.op = "Merge" /\ last'.doPrune /\ last'.kind = "merged")
                => (0 <= sk'.numElements /\ sk'.numElements <= sk'.size)]_vars

C3_Witness ==
    /\ Ok /\ sk.size > 0
    /\ last.op = "Merge" /\ last.doPrune /\ last.kind = "merged" /\ last.dropped
    /\ sk.numElements = sk.size

\* ------------------------------------------------------------- C4
\* C4: every element of the index lies in exactly one bucket, once, and its
\* parent is that bucket; no bucket holds an element missing from the index;
\* num_elements counts the index entries and the elements over all buckets.
C4_Coverage ==
    Ok =>
        /\ \A v \in sk.elementDict :
            /\ v \in DOMAIN sk.elems
            /\ Cardinality(Holders(sk, v)) = 1
            /\ Holders(sk, v) = {BucketIndex(sk, sk.elems[v].parent)}
        /\ \A i \in DOMAIN sk.buckets :
            /\ Range(sk.buckets[i].elements) \subseteq sk.elementDict
            /\ Cardinality(Range(sk.buckets[i].elements)) = Len(sk.buckets[i].elements)
        /\ DOMAIN sk.elems = sk.elementDict
        /\ sk.numElements = Cardinality(sk.elementDict)
        /\ sk.numElements = Len(Flat(sk, 1))

C4_Witness ==
    /\ Ok /\ last.op = "Merge" /\ last.kind = "merged" /\ last.known
    /\ sk.numElements >= 2 /\ Len(sk.buckets) >= 2

\* ------------------------------------------------------------- C5
\* C5: when a public operation has returned (an Encounter, a Merge, an accepted
\* deserialization), every bucket of the chain holds at least one element.
C5_NoEmptyBuckets ==
    (Ok /\ last.kind # "rejected") =>
        \A i \in DOMAIN sk.buckets : sk.buckets[i].elements # <<>>

\* ------------------------------------------------------------- C6
\* C6 as claimed: a step that discards an element (a replacement in Encounter or
\* the prune loop of Merge) leaves pruned true, and pruned never goes back to
\* false.
C6_AsClaimed ==
    [][fault' = "none" =>
         /\ (last'.kind = "replace" \/ last'.dropped) => sk'.pruned
         /\ sk.pruned => sk'.pruned]_vars

\* C6 amended: pruned becomes true exactly when the prune loop of Merge
\* discards an element; a replacement in Encounter leaves it as it was; once
\* true it is never reset by a later Encounter or Merge.
C6_PrunedFlag ==
    [][fault' = "none" =>
         /\ sk'.pruned = (sk.pruned \/ last'.dropped)
         /\ last'.op = "Encounter" => sk'.pruned = sk.pruned]_vars

C6_Witness ==
    /\ Ok /\ sk.pruned /\ last.op = "Encounter" /\ last.kind = "replace"

\* ------------------------------------------------------------- C7
\* C7: every retained element has epsilon <= parent.count, and an element that
\* was not admitted by replacement and received no epsilon through a merge has
\* epsilon = 0.
C7_EpsilonBound ==
    Ok => \A v \in sk.elementDict :
            /\ LessEq(sk.elems[v].epsilon, ParentCount(sk, v))
            /\ ~sk.elems[v].inherited => sk.elems[v].epsilon = Zero

\* ------------------------------------------------------------- C8
\* C8: Encounter on an empty sketch of capacity 0 completes, inserts nothing
\* and leaves num_elements at 0 and pruned as it was.
C8_ZeroCapacity ==
    [][(last'.op = "Encounter" /\ sk.size = 0 /\ sk.numElements = 0) =>
         /\ fault' = "none"
         /\ sk'.numElements = 0
         /\ sk'.pruned = sk.pruned
         /\ sk'.buckets = <<>>
         /\ sk'.elementDict = {}]_vars

\* ------------------------------------------------------------- C9
\* C9: when Merge meets an element of its argument whose key the receiver
\* already holds, the receiver's element has, before any pruning, its previous
\* count plus the argument bucket's count and its previous epsilon plus the
\* argument element's epsilon; receiver elements the argument lacks keep both.
C9_MergeExisting ==
    Ok => \A o \in Others : Merged(sk, o) =>
        /\ \A k \in sk.elementDict \cap o.elementDict :
            /\ ParentCount(Added(sk, o), k) = Plus(ParentCount(sk, k), ParentCount(o, k))
            /\ Added(sk, o).elems[k].epsilon = Plus(sk.elems[k].epsilon, o.elems[k].epsilon)
        /\ \A k \in sk.elementDict \ o.elementDict :
            /\ ParentCount(Added(sk, o), k) = ParentCount(sk, k)
            /\ Added(sk, o).elems[k].epsilon = sk.elems[k].epsilon

\* ------------------------------------------------------------- C10
\* C10 as claimed: after any Merge with do_prune = true on a receiver of
\* capacity > 0, num_elements is at most the capacity.
C10_AsClaimed ==
    (Ok /\ build = "any" /\ sk.size > 0 /\ last.op = "Merge" /\ last.doPrune)
        => sk.numElements <= sk.size

\* C10 amended: a Merge with do_prune = true on a receiver of capacity > 0
\* whose argument is not empty and has the receiver's type returns with
\* num_elements at most the capacity; what it discards is a prefix of the
\* chain read from the front of the head bucket, so nothing retained has a
\* lower count than anything discarded; the retained elements keep count and
\* epsilon; pruned is its previous value or true when something was discarded.
C10_MergePrune ==
    (Ok /\ sk.size > 0) => \A o \in Others : Merged(sk, o) =>
        LET m == Added(sk, o)
            r == Pruned(sk, o)
            before == Flat(m, 1)
            cut == Len(before) - Len(Flat(r, 1))
        IN  /\ r.numElements <= r.size
            /\ cut = (IF m.numElements > m.size THEN m.numElements - m.size ELSE 0)
            /\ Flat(r, 1) = SubSeq(before, cut + 1, Len(before))
            /\ \A d \in 1..cut, k \in (cut + 1)..Len(before) :
                  LessEq(ParentCount(m, before[d]), ParentCount(r, before[k]))
            /\ \A k \in (cut + 1)..Len(before) :
                  /\ ParentCount(r, before[k]) = ParentCount(m, before[k])
                  /\ r.elems[before[k]].epsilon = m.elems[before[k]].epsilon
            /\ r.pruned = (sk.pruned \/ cut > 0)

C10_Witness ==
    /\ Ok /\ sk.size > 0 /\ sk.numElements = sk.size
    /\ last.op = "Merge" /\ last.doPrune /\ last.kind = "merged"
    /\ last.dropped /\ last.known /\ sk.pruned

\* ------------------------------------------------------------- self-merge
\* Merge(this, doPrune): value is the receiver itself, so `it` and `eit`
\* (lines 83, 87) walk the very lists IncrementCounter changes.  The element
\* read at line 90 is found by the lookup of line 93 (olde = e); line 348
\* erases the list node eit points to, lines 355-356 may erase the node of
\* `it` and delete b; eit++ at line 122 then reads an erased node.

\* eit++ at line 122 on the node line 348 erased: undefined behaviour.
ErasedNode(st, env) == IF st.fault # "none" THEN st ELSE Faulted(st, env.ub)

RECURSIVE MergeSelfLoop(_, _, _)
MergeSelfLoop(st, i, env) ==
    IF st.fault # "none" \/ i > Len(st.sk.buckets) THEN st
    ELSE IF st.sk.buckets[i].elements = <<>> THEN MergeSelfLoop(st, i + 1, env)
    ELSE ErasedNode(
            MergeElement(st,
                [value |-> Head(st.sk.buckets[i].elements),
                 epsilon |-> st.sk.elems[Head(st.sk.buckets[i].elements)].epsilon,
                 currcount |-> st.sk.buckets[i].count],
                env),
            env)

MergeSelf(s0, doPrune, env) ==
    IF s0.type = NoType
    THEN IF Aborts(s0.numElements = 0, env) THEN Faulted(Running(s0), "abort")
         ELSE Passed(Running(s0), s0.numElements = 0)
    ELSE MergeFinish(MergeSelfLoop(Running(s0), 1, env), doPrune, env)

\* topk_merge(s, s): the sketch is merged into itself.
MergeIntoSelf(doPrune) ==
    /\ fault = "none"
    /\ LET st == MergeSelf(sk, doPrune, AnyBuild)
       IN  IF Clean(st) THEN Returns(st, MaxCount)
           ELSE \E env \in Envs : Returns(MergeSelf(sk, doPrune, env), MaxCount)
    /\ last' = [NoCall EXCEPT !.op = "Merge", !.doPrune = doPrune, !.kind = "self"]
    /\ UNCHANGED trueCount

NextSelf ==
    \/ \E v \in Values : Encounter(v)
    \/ \E doPrune \in BOOLEAN : MergeIntoSelf(doPrune)

SpecSelf == Init /\ [][NextSelf]_vars

\* ------------------------------------------------------------- C11
\* C11: a Merge of a sketch of capacity > 0 into itself returns, leaves the
\* set of retained keys as it was and doubles the parent.count of every
\* retained element.
C11_SelfMerge ==
    [][(last'.op = "Merge" /\ last'.kind = "self" /\ sk.size > 0) =>
         /\ fault' = "none"
         /\ sk'.elementDict = sk.elementDict
         /\ \A v \in sk.elementDict :
               ParentCount(sk', v) = Plus(ParentCount(sk, v), ParentCount(sk, v))]_vars

\* ------------------------------------------------------------- C12
\* C12: an Encounter with a value whose type is not the sketch's type, and a
\* Merge with a sketch whose element type is not the receiver's, return with
\* the receiver exactly as it was.
C12_TypeMismatch ==
    (Ok /\ last.kind # "rejected" /\ sk.type # NoType) =>
        /\ \A v \in Values : ~same_type(sk.type, TypeOf(v)) =>
              \A env \in Envs : Encountered(sk, v, env) = Running(sk)
        /\ \A o \in Others, doPrune \in BOOLEAN :
              (o.type # NoType /\ ~same_type(sk.type, o.type)) =>
                 \A env \in Envs : Merge(sk, o, doPrune, env) = Running(sk)

\* ------------------------------------------------------------- C13
\* C13 as claimed: a deserialization that returns failure leaves the sketch
\* (capacity, num_elements, pruned, type, chain, index) as it was before the call.
C13_AsClaimed ==
    [][(last'.op = "Unserialize" /\ last'.kind = "rejected" /\ fault' = "none")
          => sk' = sk]_vars

\* C13 amended: an Encounter that returns has left the sketch unchanged or
\* retains the value; a Merge that returns has left the receiver unchanged or
\* holds every key of its argument before pruning, and within the capacity
\* after pruning; a deserialization that gets past the header test keeps the
\* capacity, num_elements and pruned it read from the header whether it then
\* returns success or failure, and a failing call keeps a chain that repeats no
\* value and is indexed in full.
C13_AllOrNothing ==
    Ok =>
        /\ \A v \in Values :
              LET r == Encountered(sk, v, AnyBuild)
              IN  (last.kind # "rejected" /\ Clean(r)) =>
                     \/ Canon(r.sk) = sk
                     \/ v \in r.sk.elementDict /\ v \in Range(Flat(r.sk, 1))
        /\ \A o \in Others :
              LET r == MergeAdd(sk, o, AnyBuild)
                  p == Merge(sk, o, TRUE, AnyBuild)
              IN  /\ (last.kind # "rejected" /\ Clean(r)) =>
                        \/ Canon(r.sk) = sk
                        \/ o.elementDict \subseteq r.sk.elementDict
                  /\ (last.kind # "rejected" /\ Clean(p)) =>
                        \/ Canon(p.sk) = sk
                        \/ p.sk.numElements <= p.sk.size
        /\ last.op = "new" =>
              \A h \in Headers, body \in Bodies, extra \in {<<>>, <<Count(One)>>} :
                 LET r == DoUnserialize(sk, h \o Wire(body, 1) \o extra, AnyBuild)
                 IN  Clean(r) =>
                        /\ r.sk.size = h[1].n.lo
                        /\ r.sk.numElements = h[2].n.lo
                        /\ r.sk.pruned = (h[3].s = "T")
                        /\ ~r.result =>
                              /\ Range(Flat(r.sk, 1)) = r.sk.elementDict
                              /\ Len(Flat(r.sk, 1)) = Cardinality(r.sk.elementDict)

\* A failed deserialization has left buckets in the object.
C13_Witness ==
    /\ Ok /\ last.op = "Unserialize" /\ last.kind = "rejected"
    /\ sk.size > 0 /\ sk.buckets # <<>> /\ sk.elementDict # {}

\* ------------------------------------------------------------- C14
\* C14: a payload is accepted only if the element entries consumed from its
\* bucket records are as many as the header's num_elements; a payload whose
\* last record declares more entries than that is rejected.
C14_Acceptance ==
    (Ok /\ build = "any" /\ last.op = "Unserialize" /\ last.kind = "accepted")
        => Len(Flat(sk, 1)) = sk.numElements

\* ------------------------------------------------------------- DoSerialize
\* Mutant: a count is written with its low 32 bits only.
AddCountTruncated(c) == Count(UnsignedInt(c))
\* builder.AddCount(uint64_t)
AddCount(c) == Count(c)

\* Lines 386-395: the entries of one bucket.  SerializeType and
\* BrokerData::Convert succeed for the types and values modelled here.
RECURSIVE SerializeElements(_, _, _)
SerializeElements(s, elements, j) ==
    IF j > Len(elements) THEN <<>>
    ELSE <<AddCount(s.elems[elements[j]].epsilon), Value(elements[j])>>
         \o SerializeElements(s, elements, j + 1)

\* Lines 382-396.
RECURSIVE SerializeBuckets(_, _)
SerializeBuckets(s, i) ==
    IF i > Len(s.buckets) THEN <<>>
    ELSE <<AddCount(Wide(0, Len(s.buckets[i].elements))), AddCount(s.buckets[i].count)>>
         \o SerializeElements(s, s.buckets[i].elements, 1)
         \o SerializeBuckets(s, i + 1)

\* The list DoSerialize builds; assert(i == numElements) at line 398.
DoSerialize(s, env) ==
    IF Aborts(Len(Flat(s, 1)) = s.numElements, env)
    THEN [fault |-> "abort", skipped |-> FALSE, data |-> <<>>]
    ELSE [fault |-> "none", skipped |-> Len(Flat(s, 1)) # s.numElements,
          data |-> <<AddCount(Wide(0, s.size)), AddCount(Wide(0, s.numElements)),
                     Bool(s.pruned),
                     IF s.type # NoType THEN Type(s.type) ELSE Nil>>
                   \o SerializeBuckets(s, 1)]

\* Unserialize(Serialize(s)): the list is read into a default-constructed
\* TopkVal whose pruned field holds garbage.
RoundTrip(s, garbage) ==
    DoUnserialize(DefaultTopkVal(garbage), DoSerialize(s, AnyBuild).data, AnyBuild)

\* ------------------------------------------------------------- C15
\* C15: for every sketch that Encounter and Merge calls reach, serialization
\* succeeds and deserializing its result into a fresh sketch succeeds and
\* gives the same capacity, num_elements, pruned flag and type, the same chain
\* of bucket counts in the same order and in each bucket the same values with
\* the same epsilons in the same order.
C15_RoundTrip ==
    Ok =>
        /\ Clean(DoSerialize(sk, AnyBuild))
        /\ \A garbage \in BOOLEAN :
            LET r == RoundTrip(sk, garbage)
                c == Canon(r.sk)
            IN  /\ Clean(r) /\ r.result
                /\ c.size = sk.size
                /\ c.numElements = sk.numElements
                /\ c.pruned = sk.pruned
                /\ c.type = sk.type
                /\ c.buckets = sk.buckets
                /\ c.elementDict = sk.elementDict
                /\ \A v \in sk.elementDict :
                      /\ c.elems[v].epsilon = sk.elems[v].epsilon
                      /\ c.elems[v].parent = sk.elems[v].parent

\* A pruned sketch with two buckets and an epsilon of 2^32 or more.
C15_Witness ==
    /\ Ok /\ sk.pruned /\ Len(sk.buckets) >= 2
    /\ \E v \in sk.elementDict : sk.elems[v].epsilon.hi > 0

\* ------------------------------------------------------------- queries
\* What a query hands back: the fault it ended in, what it told the reporter
\* ("error", "warning" or nothing) and its result.
Answer(r, x) == [fault |-> "none", report |-> r, result |-> x]
NoAnswer(f) == [fault |-> f, report |-> "", result |-> <<>>]

\* Largest k GetTopK is asked for.
MaxK == 3

\* Lines 181-195, with `it` at bucket i and `read` values emitted so far.
RECURSIVE TopKFrom(_, _, _, _)
TopKFrom(s, i, k, read) ==
    IF ~(read < k) THEN <<>>
    ELSE s.buckets[i].elements
         \o (IF i = 1 THEN <<>>
             ELSE TopKFrom(s, i - 1, k, read + Len(s.buckets[i].elements)))

\* nullptr is the empty answer with an error; buckets.end()-- on an empty
\* list is undefined.
GetTopK(s, k, env) ==
    IF s.numElements = 0 THEN Answer("error", <<>>)
    ELSE IF Len(s.buckets) = 0 THEN NoAnswer(env.ub)
    ELSE Answer("", TopKFrom(s, Len(s.buckets), k, 0))

GetCount(s, value, env) ==
    IF ~GetHash(s) THEN NoAnswer(env.ub)
    ELSE IF value \notin s.elementDict THEN Answer("error", Zero)
    ELSE IF BucketIndex(s, s.elems[value].parent) = 0 THEN NoAnswer(env.ub)
    ELSE Answer("", ParentCount(s, value))

GetEpsilon(s, value, env) ==
    IF ~GetHash(s) THEN NoAnswer(env.ub)
    ELSE IF value \notin s.elementDict THEN Answer("error", Zero)
    ELSE Answer("", s.elems[value].epsilon)

\* Mutant: a bucket is counted once, whatever the number of its elements.
TimesOnce(n, c) == c
\* elements.size() * count
Times(n, c) == Wide(n * c.hi, n * c.lo)
RECURSIVE SumFrom(_, _)
SumFrom(s, i) ==
    IF i > Len(s.buckets) THEN Zero
    ELSE Plus(Times(Len(s.buckets[i].elements), s.buckets[i].count), SumFrom(s, i + 1))

GetSum(s) == Answer(IF s.pruned THEN "warning" ELSE "", SumFrom(s, 1))

\* ------------------------------------------------------------- DoClone
\* make_intrusive<TopkVal>(size), then clone->Merge(this): doPrune has its
\* default, false.
DoClone(s, env) == Merge(TopkVal(s.size), s, FALSE, env)

\* ------------------------------------------------------------- C16
\* C16: for every sketch of capacity > 0 that Encounter and Merge calls reach,
\* cloning succeeds and the clone answers GetTopK(k) for every k, GetCount(v)
\* and GetEpsilon(v) for every v, and GetSum() (the sum and whether the
\* warning is issued) as the sketch itself does.
C16_CloneEquivalence ==
    (Ok /\ build = "any" /\ sk.size > 0) =>
        /\ Clean(DoClone(sk, AnyBuild))
        /\ LET c == Canon(DoClone(sk, AnyBuild).sk)
           IN  /\ \A k \in 0..MaxK : GetTopK(c, k, AnyBuild) = GetTopK(sk, k, AnyBuild)
               /\ \A v \in Values :
                     /\ GetCount(c, v, AnyBuild) = GetCount(sk, v, AnyBuild)
                     /\ GetEpsilon(c, v, AnyBuild) = GetEpsilon(sk, v, AnyBuild)
               /\ GetSum(c) = GetSum(sk)

\* ------------------------------------------------------------- C17
\* The elements of buckets i..Len, highest bucket first.
RECURSIVE Downward(_, _)
Downward(s, i) ==
    IF i > Len(s.buckets) THEN <<>> ELSE Downward(s, i + 1) \o s.buckets[i].elements

\* C17: on a sketch with num_elements > 0, GetTopK(k) returns the elements of
\* the buckets from the highest count down to a boundary bucket, the first one
\* that brings the number emitted to k or more (or the head bucket): counts do
\* not increase along the result, it has at least min(k, num_elements) entries,
\* every element left out has a strictly smaller count than every element
\* returned, and GetTopK(0) returns nothing.
C17_GetTopK ==
    (Ok /\ sk.numElements > 0) => \A k \in 0..MaxK :
        LET a == GetTopK(sk, k, AnyBuild)
            r == a.result
            omitted == sk.elementDict \ Range(r)
        IN  /\ a.fault = "none" /\ a.report = ""
            /\ k = 0 => r = <<>>
            /\ \A i, j \in DOMAIN r :
                  i < j => LessEq(ParentCount(sk, r[j]), ParentCount(sk, r[i]))
            /\ Len(r) >= (IF k < sk.numElements THEN k ELSE sk.numElements)
            /\ k > 0 => \E b \in DOMAIN sk.buckets :
                  /\ r = Downward(sk, b)
                  /\ Len(Downward(sk, b + 1)) < k
            /\ \A x \in omitted, y \in Range(r) :
                  Less(ParentCount(sk, x), ParentCount(sk, y))

\* ------------------------------------------------------------- C18
\* C18: in every state of the sketch, also before it has a type and a
\* composite hash, GetCount(v) and GetEpsilon(v) for a value v that is not
\* retained report an error and return zero.
C18_MissingElement ==
    Ok => \A v \in Values \ sk.elementDict : \A env \in Envs :
            /\ GetCount(sk, v, env) = Answer("error", Zero)
            /\ GetEpsilon(sk, v, env) = Answer("error", Zero)

\* ------------------------------------------------------------- C19
\* C19: on a sketch of capacity > 0, in a history of Encounter calls,
\* num_elements never decreases, grows by exactly one when a value that is
\* not retained is encountered while num_elements < capacity, stays as it is
\* on every other Encounter, and once equal to the capacity stays equal to it.
C19_Monotone ==
    [][(fault' = "none" /\ sk.size > 0 /\ last'.op = "Encounter") =>
         /\ sk'.numElements >= sk.numElements
         /\ last'.kind = "insert" => sk'.numElements = sk.numElements + 1
         /\ last'.kind # "insert" => sk'.numElements = sk.numElements
         /\ sk.numElements = sk.size => sk'.numElements = sk'.size
         /\ sk'.size = sk.size]_vars

\* A full sketch after a replacement.
C19_Witness ==
    /\ Ok /\ sk.size > 1 /\ sk.numElements = sk.size
    /\ last.op = "Encounter" /\ last.kind = "replace"

\* ------------------------------------------------------------- C20
\* C20: for two sketches of compatible type, merging the second into the
\* first and merging the first into the second, nothing being pruned, both
\* succeed and retain the same keys, the union of the two key sets, with the
\* same count for every key.
C20_MergeCommutes ==
    (Ok /\ build = "any" /\ sk.size > 0) => \A o \in Others :
        (sk.type = NoType \/ o.type = NoType \/ same_type(sk.type, o.type)) =>
            LET a == MergeAdd(sk, o, AnyBuild)
                b == MergeAdd(o, sk, AnyBuild)
            IN  /\ Clean(a) /\ Clean(b)
                /\ a.sk.elementDict = sk.elementDict \cup o.elementDict
                /\ b.sk.elementDict = a.sk.elementDict
                /\ \A k \in a.sk.elementDict :
                      ParentCount(Canon(a.sk), k) = ParentCount(Canon(b.sk), k)

\* ------------------------------------------------------------- C21
\* C21: when Encounter is given a value that is not retained by a full sketch
\* (num_elements = capacity > 0) whose minimum bucket has count m, the call
\* ends with the new element at epsilon m and parent count m + 1, exactly
\* one element is evicted, and every other retained element keeps its count
\* and its epsilon.
C21_Replacement ==
    [][(fault = "none" /\ last'.op = "Encounter" /\ last'.kind = "replace"
          /\ sk.size > 0 /\ sk.numElements = sk.size) =>
         /\ fault' = "none"
         /\ sk.buckets # <<>>
         /\ LET m == sk.buckets[1].count
                admitted == sk'.elementDict \ sk.elementDict
                evicted == sk.elementDict \ sk'.elementDict
            IN  /\ \A i \in DOMAIN sk.buckets : LessEq(m, sk.buckets[i].count)
                /\ Cardinality(admitted) = 1
                /\ Cardinality(evicted) = 1
                /\ DOMAIN sk'.elems = sk'.elementDict
                /\ \A v \in admitted :
                      /\ sk'.elems[v].epsilon = m
                      /\ ParentCount(sk', v) = Plus(m, One)
                /\ \A v \in sk.elementDict \cap sk'.elementDict :
                      /\ ParentCount(sk', v) = ParentCount(sk, v)
                      /\ sk'.elems[v].epsilon = sk.elems[v].epsilon]_vars

\* A replacement that left another element, with its own epsilon, in place.
C21_Witness ==
    /\ Ok /\ sk.size > 1 /\ sk.numElements = sk.size
    /\ last.op = "Encounter" /\ last.kind = "replace"
    /\ \E v, w \in sk.elementDict :
        /\ v # w
        /\ sk.elems[v].inherited /\ sk.elems[v].epsilon # Zero
        /\ sk.elems[w].epsilon # sk.elems[v].epsilon

\* ------------------------------------------------------------- C22
\* The place of a retained value in the chain, counted from the head of the
\* head bucket.
Position(s, v) == CHOOSE i \in 1..Len(Flat(s, 1)) : Flat(s, 1)[i] = v
Before(s, v, w) == Position(s, v) < Position(s, w)
Tied(s, v, w) == ParentCount(s, v) = ParentCount(s, w)

\* C22: the victim of a replacement is the first element of the head bucket,
\* no retained element has a smaller count than the victim, and the victim
\* has held that count longer than every element tied with it: an element
\* that keeps its count through a call stays in front of the tied elements
\* it was in front of and in front of every element that reaches its count
\* in that call.
C22_FifoAmongTies ==
    [][(fault = "none" /\ fault' = "none" /\ sk.size > 0) =>
         /\ \A v, w \in sk'.elementDict :
               (/\ v # w /\ Tied(sk', v, w)
                /\ v \in sk.elementDict /\ ParentCount(sk', v) = ParentCount(sk, v)) =>
                   IF w \in sk.elementDict /\ ParentCount(sk', w) = ParentCount(sk, w)
                   THEN Before(sk, v, w) => Before(sk', v, w)
                   ELSE Before(sk', v, w)
         /\ (last'.op = "Encounter" /\ last'.kind = "replace") =>
               LET victim == Head(sk.buckets[1].elements)
               IN  /\ sk.elementDict \ sk'.elementDict = {victim}
                   /\ \A w \in sk.elementDict \ {victim} :
                         /\ LessEq(ParentCount(sk, victim), ParentCount(sk, w))
                         /\ Tied(sk, victim, w) => Before(sk, victim, w)]_vars

\* ------------------------------------------------------------- C23
\* Line 86: the bucket counts Merge reads from its argument.
Currcounts == UNION {{o.buckets[i].count : i \in DOMAIN o.buckets} : o \in Others}

\* C23: IncrementCounter(element, delta), called as Merge calls it with the
\* 64-bit count of a bucket of the argument, moves the element to the bucket
\* whose count is parent.count + delta, also for a delta of 2^32 and above.
C23_FullCount ==
    Ok => \A k \in sk.elementDict, currcount \in Currcounts :
            LET st == IncrementCounter(Running(sk), k, currcount, AnyBuild)
            IN  /\ Clean(st)
                /\ ParentCount(Canon(st.sk), k) = Plus(ParentCount(sk, k), currcount)

\* ------------------------------------------------------------- C24
\* The number of Encountered calls made so far with a value of the sketch's
\* type (a call with a value of another type returns at line 251).
RECURSIVE Calls(_)
Calls(S) ==
    IF S = {} THEN 0
    ELSE LET v == CHOOSE x \in S : TRUE
         IN  (IF same_type(sk.type, TypeOf(v)) THEN trueCount[v] ELSE 0)
                + Calls(S \ {v})

\* C24: in a history of Encounter calls on a sketch of capacity > 0, GetSum()
\* is the number of type-compatible Encounter calls made so far, also after
\* replacement evictions, and reports no warning.
C24_SumConservation ==
    (Ok /\ sk.size > 0) => GetSum(sk) = Answer("", Wide(0, Calls(Values)))

\* After a replacement: some values were seen with a sketch that no longer
\* retains them, and two retained elements share a bucket.
C24_Witness ==
    /\ Ok /\ sk.size > 1 /\ last.kind = "replace"
    /\ GetSum(sk).result = Wide(0, Calls(Values))
    /\ \E v \in Values \ sk.elementDict : same_type(sk.type, TypeOf(v)) /\ trueCount[v] > 0
    /\ \E i \in DOMAIN sk.buckets : Len(sk.buckets[i].elements) > 1

\* ------------------------------------------------------------- C25
\* Line 20 in a build that keeps assert(): Typify(t) returns.
TypifyPasses(s, t) ==
    Typify(Running(s), t, [ndebug |-> FALSE, ub |-> "crash"]).fault = "none"

\* C25: in every state reached by construction, Encounter, Merge and accepted
\* deserialization, num_elements = 0 exactly when the sketch has neither a
\* type nor a composite hash, so the assertion of Typify holds on every
\* Encounter that finds num_elements = 0 and on every Merge into a receiver
\* without a type.
C25_TypifyPrecondition ==
    (Ok /\ last.kind # "rejected") =>
        /\ sk.numElements = 0 <=> (sk.type = NoType /\ sk.hash = NoType)
        /\ sk.numElements = 0 => \A v \in Values : TypifyPasses(sk, TypeOf(v))
        /\ sk.type = NoType =>
              \A o \in Others : o.type # NoType => TypifyPasses(sk, o.type)

====
